---- MODULE Spec2Model ----
(***************************************************************************)
(* Model of PF/PFStatus.py: PFStatus._from_struct decodes a pf_status      *)
(* record into attributes, PFStatus._to_string renders the report.         *)
(*                                                                         *)
(* Conventions                                                             *)
(*  - Python sequences (ctypes arrays, tuples) are TLA+ sequences read     *)
(*    through PyHas/PyGet with the source's 0-based indices.               *)
(*  - A Python 2 dict is a record [map, order]: map is the key->value      *)
(*    function, order the slot order iteritems() walks.  That order is a   *)
(*    property of the interpreter's hashing, so it belongs to the          *)
(*    platform and is chosen nondeterministically with it.                 *)
(*  - A Python integer that may not fit TLC's integers (the host id) is a  *)
(*    record [hi, lo] standing for hi * 2^16 + lo with lo in 0..2^16-1.    *)
(*  - time.time() is a float: times are counted in ticks, Res per second.  *)
(*  - The rendered string is the sequence of its rows; each row keeps the  *)
(*    fields the format string substitutes.                                *)
(***************************************************************************)
EXTENDS Integers, Sequences, FiniteSets, TLC

VARIABLES raw, platform, pc, self, exc, now, out

vars == <<raw, platform, pc, self, exc, now, out>>

(***************************************************************************)
(* Bounds                                                                  *)
(***************************************************************************)
\* clock ticks per second (resolution of time.time())
Res == 2
\* raw arrays carry up to MaxExtra entries more than their label list
MaxExtra == 1
\* raw arrays carry down to MaxMissing entries fewer than their label list
MaxMissing == 1
\* debug levels range over -1 .. MaxDebug
MaxDebug == 4
\* pf_chksum byte sequences of length 0 .. MaxChksumLen
MaxChksumLen == 2
\* the interpreter's hashing is one of the seeds 0 .. MaxSeed
MaxSeed == 1
\* the entries of the raw counter arrays are scaled by 1 .. MaxScale
MaxScale == 1

(***************************************************************************)
(* Python helpers                                                          *)
(***************************************************************************)
\* a[i] does not raise IndexError (i may be negative, as in Python)
PyHas(a, i) == (-Len(a) <= i) /\ (i < Len(a))

\* a[i] for an index that PyHas accepts
PyGet(a, i) == IF i >= 0 THEN a[i + 1] ELSE a[Len(a) + i + 1]

\* a[i][j]
Get2(a, i, j) == PyGet(PyGet(a, i), j)

\* divmod(a, b) for b > 0: floor quotient and non-negative remainder
divmod(a, b) == <<a \div b, a % b>>

\* bool(x)
bool(x) == x # 0

\* "%i" % x for a non-negative float given in ticks: truncation to seconds
FmtInt(ticks) == ticks \div Res

RECURSIVE HexDigits(_)
\* hexadecimal digits of n >= 0, most significant first ("%x" % n)
HexDigits(n) ==
    LET d == <<"0","1","2","3","4","5","6","7","8","9","a","b","c","d","e","f">>
    IN  IF n < 16 THEN <<d[n + 1]>> ELSE Append(HexDigits(n \div 16), d[(n % 16) + 1])

RECURSIVE ZeroPad(_, _)
\* left-pad a digit string with "0" up to width w
ZeroPad(s, w) == IF Len(s) >= w THEN s ELSE ZeroPad(<<"0">> \o s, w)

\* "%14.1f" % (v / runtime): v / runtime in tenths, rounded to nearest (ties
\* to even); runtime is given in ticks and is not zero
RateTenths(v, runtime) ==
    LET n == IF runtime < 0 THEN -(10 * v * Res) ELSE 10 * v * Res
        d == IF runtime < 0 THEN -runtime ELSE runtime
        q == n \div d
        r == n % d
    IN  IF 2 * r < d THEN q
        ELSE IF 2 * r > d THEN q + 1
        ELSE IF q % 2 = 0 THEN q ELSE q + 1

\* "%x" % b: no zero padding
Fmt02x_nopad(b) == HexDigits(b)

\* "%02x" % b
Fmt02x(b) == ZeroPad(HexDigits(b), 2)

RECURSIVE JoinHex(_)
\* "".join(["%02x" % b for b in bytes])
JoinHex(bytes) ==
    IF bytes = <<>> THEN <<>> ELSE Fmt02x(Head(bytes)) \o JoinHex(Tail(bytes))

(***************************************************************************)
(* 32-bit words as [hi, lo] pairs                                          *)
(***************************************************************************)
W16 == 65536

\* the integer whose big-endian bytes are b (4 bytes)
WordBE(b) == [hi |-> b[1] * 256 + b[2], lo |-> b[3] * 256 + b[4]]

\* the integer whose little-endian bytes are b (4 bytes)
WordLE(b) == [hi |-> b[4] * 256 + b[3], lo |-> b[2] * 256 + b[1]]

\* the bytes of an unsigned 32-bit word in memory order of a little-endian host
BytesLE(w) == <<w.lo % 256, w.lo \div 256, w.hi % 256, w.hi \div 256>>

\* reading a c_uint32 field of the structure: native byte order
NativeRead(bytes, p) == IF p.byteorder = "little" THEN WordLE(bytes) ELSE WordBE(bytes)

\* socket.ntohl: byte swap on little-endian hosts, identity on big-endian
\* ones; old interpreters return the result as a signed C long
ntohl(x, p) ==
    LET u == IF p.byteorder = "little" THEN WordBE(BytesLE(x)) ELSE x
    IN  IF p.ntohl_signed /\ u.hi >= 32768 THEN [hi |-> u.hi - W16, lo |-> u.lo] ELSE u

\* the mask left out
Mask32_nomask(x) == x

\* x & 0xffffffff
Mask32(x) == [hi |-> x.hi % W16, lo |-> x.lo]

(***************************************************************************)
(* Dicts                                                                   *)
(***************************************************************************)
\* the keys of a dict literal, in the order they are written
Keys(lit) == [i \in 1..Len(lit) |-> lit[i][1]]

KeySet(lit) == {lit[i][1] : i \in 1..Len(lit)}

\* the raw index written next to key k in a dict literal
IndexOf(lit, k) == (CHOOSE i \in 1..Len(lit) : lit[i][1] = k)

Rotate(s, r) == [i \in 1..Len(s) |-> s[((i - 1 + r) % Len(s)) + 1]]

\* the slot order of a hash table holding these keys, inserted in this
\* order, under the interpreter's hashing: any permutation is possible; the
\* seeds sample them (seed 0 keeps insertion order, the others rotate it)
HashOrder(keys, seed) == Rotate(keys, seed)

\* dict.iteritems(): the (key, value) pairs in slot order
iteritems(d) == [i \in 1..Len(d.order) |-> <<d.order[i], d.map[d.order[i]]>>]

(***************************************************************************)
(* The dict literals of _from_struct: key and index into the raw array     *)
(***************************************************************************)
\* the literal with the indices of 'fragment' and 'short' exchanged
cnt_literal_swapped ==
    << <<"match", 0>>, <<"bad-offset", 1>>, <<"fragment", 3>>, <<"short", 2>>,
       <<"normalize", 4>>, <<"memory", 5>>, <<"bad-timestamp", 6>>,
       <<"congestion", 7>>, <<"ip-option", 8>>, <<"proto-cksum", 9>>,
       <<"state-mismatch", 10>>, <<"state-insert", 11>>, <<"state-limit", 12>>,
       <<"src-limit", 13>>, <<"synproxy", 14>> >>

cnt_literal ==
    << <<"match", 0>>, <<"bad-offset", 1>>, <<"fragment", 2>>, <<"short", 3>>,
       <<"normalize", 4>>, <<"memory", 5>>, <<"bad-timestamp", 6>>,
       <<"congestion", 7>>, <<"ip-option", 8>>, <<"proto-cksum", 9>>,
       <<"state-mismatch", 10>>, <<"state-insert", 11>>, <<"state-limit", 12>>,
       <<"src-limit", 13>>, <<"synproxy", 14>> >>

lcnt_literal ==
    << <<"max states per rule", 0>>, <<"max-src-states", 1>>,
       <<"max-src-nodes", 2>>, <<"max-src-conn", 3>>,
       <<"max-src-conn-rate", 4>>, <<"overload table insertion", 5>>,
       <<"overload flush states", 6>> >>

fcnt_literal == << <<"searches", 0>>, <<"inserts", 1>>, <<"removals", 2>> >>

scnt_literal == << <<"searches", 0>>, <<"inserts", 1>>, <<"removals", 2>> >>

PF_PASS == 0

PF_DROP == 1

\* every index a dict literal reads exists in the raw array
LiteralReadable(lit, arr) == \A i \in 1..Len(lit) : PyHas(arr, lit[i][2])

\* {key: arr[index], ...} built under the given hash seed
DictOf(lit, arr, seed) ==
    [map |-> [k \in KeySet(lit) |-> PyGet(arr, lit[IndexOf(lit, k)][2])],
     order |-> HashOrder(Keys(lit), seed)]

(***************************************************************************)
(* _from_struct                                                            *)
(***************************************************************************)
\* evaluating the four counter dict literals raises IndexError
FromStructRaises(s) ==
    \/ ~LiteralReadable(cnt_literal, s.counters)
    \/ ~LiteralReadable(lcnt_literal, s.lcounters)
    \/ ~LiteralReadable(fcnt_literal, s.fcounters)
    \/ ~LiteralReadable(scnt_literal, s.scounters)

\* self.hostid
DecodeHostid(s, p) == Mask32(ntohl(NativeRead(s.hostid, p), p))

\* self.pf_chksum
DecodeChksum(s) == <<"0", "x">> \o JoinHex(s.pf_chksum)

\* the attributes _from_struct sets on platform p
from_struct(s, p) ==
    [ifname    |-> s.ifname,
     running   |-> bool(s.running),
     since     |-> s.since,
     states    |-> s.states,
     src_nodes |-> s.src_nodes,
     debug     |-> s.debug,
     hostid    |-> DecodeHostid(s, p),
     reass     |-> s.reass,
     pf_chksum |-> DecodeChksum(s),
     cnt       |-> DictOf(cnt_literal, s.counters, p.seed),
     lcnt      |-> DictOf(lcnt_literal, s.lcounters, p.seed),
     fcnt      |-> DictOf(fcnt_literal, s.fcounters, p.seed),
     scnt      |-> DictOf(scnt_literal, s.scounters, p.seed),
     bytes     |-> [in  |-> <<Get2(s.bcounters, 0, 0), Get2(s.bcounters, 1, 0)>>,
                    out |-> <<Get2(s.bcounters, 0, 1), Get2(s.bcounters, 1, 1)>>],
     packets   |-> [in  |-> << <<PyGet(Get2(s.pcounters, 0, 0), PF_PASS),
                                 PyGet(Get2(s.pcounters, 1, 0), PF_PASS)>>,
                               <<PyGet(Get2(s.pcounters, 0, 0), PF_DROP),
                                 PyGet(Get2(s.pcounters, 1, 0), PF_DROP)>> >>,
                    out |-> << <<PyGet(Get2(s.pcounters, 0, 1), PF_PASS),
                                 PyGet(Get2(s.pcounters, 1, 1), PF_PASS)>>,
                               <<PyGet(Get2(s.pcounters, 0, 1), PF_DROP),
                                 PyGet(Get2(s.pcounters, 1, 1), PF_DROP)>> >>]]

(***************************************************************************)
(* _to_string                                                              *)
(***************************************************************************)
debug_labels == <<"none", "urgent", "misc", "loud">>

\* one row of the report: the fields its format string substitutes
Row(kind, label, vals, rate, text) ==
    [kind |-> kind, label |-> label, vals |-> vals, rate |-> rate, text |-> text]

\* time.time() - self.since, in ticks
Runtime(o, t) == t - o.since * Res

\* the last divmod taken by 60 instead of 24
Elapsed_by60(runtime) ==
    LET d1 == divmod(runtime, 60 * Res)
        d2 == divmod(d1[1], 60)
        d3 == divmod(d2[1], 60)
    IN  <<d3[1], d3[2], d2[2], FmtInt(d1[2])>>

\* (day, hrs, min, sec) as the header prints them
Elapsed(runtime) ==
    LET d1 == divmod(runtime, 60 * Res)
        d2 == divmod(d1[1], 60)
        d3 == divmod(d2[1], 24)
    IN  <<d3[1], d3[2], d2[2], FmtInt(d1[2])>>

\* "Status: ..." [" for %i days %02i:%02i:%02i"] and "Debug: ..."
StatusRow(o, t) ==
    Row("status",
        IF o.running THEN "Enabled" ELSE "Disabled",
        IF o.since # 0 THEN Elapsed(Runtime(o, t)) ELSE <<>>,
        <<>>,
        <<"Debug: ", PyGet(debug_labels, o.debug)>>)

HostidRow(o) == Row("hostid", "Hostid:", <<o.hostid.hi, o.hostid.lo>>, <<>>, <<>>)

ChecksumRow(o) == Row("checksum", "Checksum:", <<>>, <<>>, o.pf_chksum)

\* the interface rows written whatever self.ifname is
InterfaceRows_unguarded(o) ==
    << Row("ifhdr", "Interface Stats for", <<>>, <<>>, <<o.ifname, "IPv4", "IPv6">>),
       Row("ifrow", "Bytes In", o.bytes["in"], <<>>, <<>>),
       Row("ifrow", "Bytes Out", o.bytes["out"], <<>>, <<>>),
       Row("ifsub", "  Packets In", <<>>, <<>>, <<>>),
       Row("ifrow", "  Passed", PyGet(o.packets["in"], PF_PASS), <<>>, <<>>),
       Row("ifrow", "  Blocked", PyGet(o.packets["in"], PF_DROP), <<>>, <<>>),
       Row("ifsub", "  Packets Out", <<>>, <<>>, <<>>),
       Row("ifrow", "  Passed", PyGet(o.packets["out"], PF_PASS), <<>>, <<>>),
       Row("ifrow", "  Blocked", PyGet(o.packets["out"], PF_DROP), <<>>, <<>>) >>

\* the rows written under "if self.ifname:"
InterfaceRows(o) ==
    IF o.ifname # ""
    THEN << Row("ifhdr", "Interface Stats for", <<>>, <<>>, <<o.ifname, "IPv4", "IPv6">>),
            Row("ifrow", "Bytes In", o.bytes["in"], <<>>, <<>>),
            Row("ifrow", "Bytes Out", o.bytes["out"], <<>>, <<>>),
            Row("ifsub", "  Packets In", <<>>, <<>>, <<>>),
            Row("ifrow", "  Passed", PyGet(o.packets["in"], PF_PASS), <<>>, <<>>),
            Row("ifrow", "  Blocked", PyGet(o.packets["in"], PF_DROP), <<>>, <<>>),
            Row("ifsub", "  Packets Out", <<>>, <<>>, <<>>),
            Row("ifrow", "  Passed", PyGet(o.packets["out"], PF_PASS), <<>>, <<>>),
            Row("ifrow", "  Blocked", PyGet(o.packets["out"], PF_DROP), <<>>, <<>>) >>
    ELSE <<>>

\* the loop with the rate field written on every row
CounterRows_always(kind, d, o, t) ==
    LET it == iteritems(d)
    IN  [i \in 1..Len(it) |->
            Row(kind, it[i][1], <<it[i][2]>>,
                <<RateTenths(it[i][2], Runtime(o, t))>>, <<"/s">>)]

\* the loop "for k, v in d.iteritems()": one row per item, with the rate
\* field when self.since is set
CounterRows(kind, d, o, t) ==
    LET it == iteritems(d)
    IN  [i \in 1..Len(it) |->
            Row(kind, it[i][1], <<it[i][2]>>,
                IF o.since # 0 THEN <<RateTenths(it[i][2], Runtime(o, t))>> ELSE <<>>,
                IF o.since # 0 THEN <<"/s">> ELSE <<>>)]

\* the exception _to_string raises at time t, "none" if it returns
ToStringRaises(o, t) ==
    IF ~PyHas(debug_labels, o.debug) THEN "IndexError"
    ELSE IF o.since # 0 /\ Runtime(o, t) = 0 /\ Len(o.fcnt.order) > 0
         THEN "ZeroDivisionError"
    ELSE "none"

\* the string _to_string returns at time t
to_string(o, t) ==
    <<StatusRow(o, t), HostidRow(o), ChecksumRow(o)>>
    \o InterfaceRows(o)
    \o <<Row("hdr", "State Table", <<>>, <<>>, <<"Total", "Rate">>),
         Row("cur", "current entries", <<o.states>>, <<>>, <<>>)>>
    \o CounterRows("fcnt", o.fcnt, o, t)
    \o <<Row("hdr", "Source Tracking Table", <<>>, <<>>, <<>>),
         Row("cur", "current entries", <<o.src_nodes>>, <<>>, <<>>)>>
    \o CounterRows("scnt", o.scnt, o, t)
    \o <<Row("hdr", "Counters", <<>>, <<>>, <<>>)>>
    \o CounterRows("cnt", o.cnt, o, t)
    \o <<Row("hdr", "Limit Counters", <<>>, <<>>, <<>>)>>
    \o CounterRows("lcnt", o.lcnt, o, t)

(***************************************************************************)
(* Raw records and platforms                                               *)
(***************************************************************************)
\* a raw counter array of n entries, all different
RawArray(n, base, scale) == [i \in 1..n |-> scale * (base + i - 1)]

RawArrays(lit, base, scale) ==
    {RawArray(n, base, scale) : n \in (Len(lit) - MaxMissing)..(Len(lit) + MaxExtra)}

\* the filter was enabled at this time (seconds)
SinceVal == 100000

DefaultHostid == <<1, 2, 3, 4>>

DefaultChksum == <<10, 255>>

RawRecord(ifname, running, since, debug, hostid, chk, c, l, f, sc) ==
    [ifname |-> ifname, running |-> running, since |-> since,
     states |-> 5, src_nodes |-> 2, debug |-> debug, hostid |-> hostid,
     reass |-> 0, pf_chksum |-> chk,
     counters |-> c, lcounters |-> l, fcounters |-> f, scounters |-> sc,
     bcounters |-> << <<11, 12>>, <<21, 22>> >>,
     pcounters |-> << << <<111, 112, 113>>, <<121, 122, 123>> >>,
                      << <<211, 212, 213>>, <<221, 222, 223>> >> >>]

\* records that vary everything but the host id and the checksum
RawRecords ==
    {RawRecord(ifname, running, since, debug, DefaultHostid, DefaultChksum, c, l, f, sc) :
        ifname \in {"", "em0"}, running \in {0, 1}, since \in {0, SinceVal},
        debug \in -1..MaxDebug,
        c \in UNION {RawArrays(cnt_literal, 100, k) : k \in 1..MaxScale},
        l \in RawArrays(lcnt_literal, 200, 1),
        f \in RawArrays(fcnt_literal, 300, 1),
        sc \in RawArrays(scnt_literal, 400, 1)}

Bytes == {0, 1, 10, 128, 255}

ByteSeqs(n) == [1..n -> Bytes]

IdRecord(hostid, chk) ==
    RawRecord("em0", 1, SinceVal, 0, hostid, chk,
              RawArray(Len(cnt_literal), 100, 1), RawArray(Len(lcnt_literal), 200, 1),
              RawArray(Len(fcnt_literal), 300, 1), RawArray(Len(scnt_literal), 400, 1))

\* records that vary the host id or the checksum
IdRecords ==
    {IdRecord(h, DefaultChksum) : h \in [1..4 -> {0, 1, 128, 255}]}
    \cup {IdRecord(DefaultHostid, chk) : chk \in UNION {ByteSeqs(n) : n \in 0..MaxChksumLen}}

HashSeeds == 0..MaxSeed

\* one byte order and ntohl, every hash seed
Platforms == [byteorder : {"little"}, ntohl_signed : {FALSE}, seed : HashSeeds]

\* every byte order, ntohl and hash seed
IdPlatforms == [byteorder : {"little", "big"}, ntohl_signed : BOOLEAN, seed : HashSeeds]

\* the values time.time() takes, in ticks: before, at and after self.since
Times ==
    {SinceVal * Res + d :
        d \in {-(61 * Res) - 1, 0, 1, 59 * Res + 1, 3600 * Res, 86399 * Res,
                90061 * Res + 1}}

(***************************************************************************)
(* State machine                                                           *)
(***************************************************************************)
InitWith(records, platforms) ==
    /\ raw \in records
    /\ platform \in platforms
    /\ pc = "start"
    /\ self = <<>>
    /\ exc = "none"
    /\ now = 0
    /\ out = <<>>

Init == InitWith(RawRecords, Platforms)

InitId == InitWith(IdRecords, IdPlatforms)

\* a short array read as if padded with zeros
Padded(lit, arr) ==
    [i \in 1..(IF Len(arr) < Len(lit) THEN Len(lit) ELSE Len(arr)) |->
        IF i <= Len(arr) THEN arr[i] ELSE 0]

\* construction that swallows the IndexError and keeps what it decoded
Construct_lenient ==
    /\ pc = "start"
    /\ pc' = "constructed"
    /\ exc' = exc
    /\ self' = from_struct([raw EXCEPT !.counters = Padded(cnt_literal, @),
                                      !.lcounters = Padded(lcnt_literal, @),
                                      !.fcounters = Padded(fcnt_literal, @),
                                      !.scounters = Padded(scnt_literal, @)], platform)
    /\ UNCHANGED <<raw, platform, now, out>>

\* PFStatus(status): __init__ runs _from_struct on the record
Construct ==
    /\ pc = "start"
    /\ IF FromStructRaises(raw)
       THEN /\ pc' = "construct_failed"
            /\ exc' = "IndexError"
            /\ self' = self
       ELSE /\ pc' = "constructed"
            /\ exc' = exc
            /\ self' = from_struct(raw, platform)
    /\ UNCHANGED <<raw, platform, now, out>>

\* str(status): _to_string at the current time
Render ==
    /\ pc = "constructed"
    /\ \E t \in Times :
        /\ now' = t
        /\ exc' = ToStringRaises(self, t)
        /\ IF ToStringRaises(self, t) = "none"
           THEN pc' = "rendered" /\ out' = to_string(self, t)
           ELSE pc' = "render_failed" /\ out' = out
    /\ UNCHANGED <<raw, platform, self>>

Next == Construct \/ Render

Spec == Init /\ [][Next]_vars

SpecId == InitId /\ [][Next]_vars

(***************************************************************************)
(* The documented tables the properties refer to                           *)
(***************************************************************************)
OperationLabels ==
    <<"match", "bad-offset", "fragment", "short", "normalize", "memory",
      "bad-timestamp", "congestion", "ip-option", "proto-cksum", "state-mismatch",
      "state-insert", "state-limit", "src-limit", "synproxy">>

LimitLabels ==
    <<"max states per rule", "max-src-states", "max-src-nodes", "max-src-conn",
      "max-src-conn-rate", "overload table insertion", "overload flush states">>

TableLabels == <<"searches", "inserts", "removals">>

Range(f) == {f[i] : i \in DOMAIN f}

Constructed == pc \in {"constructed", "rendered", "render_failed"}

\* group d holds exactly the documented labels, the i-th label mapped to the
\* i-th raw entry
GroupMatches(d, labels, arr) ==
    /\ DOMAIN d.map = Range(labels)
    /\ Cardinality(DOMAIN d.map) = Len(labels)
    /\ \A i \in 1..Len(labels) : d.map[labels[i]] = arr[i]

\* the rows of out of the given kind, in output order
RECURSIVE RowsOf(_, _)
RowsOf(rows, kinds) ==
    IF rows = <<>> THEN <<>>
    ELSE IF Head(rows).kind \in kinds
         THEN <<Head(rows)>> \o RowsOf(Tail(rows), kinds)
         ELSE RowsOf(Tail(rows), kinds)

LabelsOf(rows) == [i \in 1..Len(rows) |-> rows[i].label]

KindsOf(rows) == [i \in 1..Len(rows) |-> rows[i].kind]

(***************************************************************************)
(* Properties                                                              *)
(***************************************************************************)

\* C1: whenever a snapshot was constructed from a record whose counter arrays
\* are long enough, each of the four counter groups has exactly its documented
\* labels (15, 7, 3, 3) and the value under the i-th label is the i-th entry of
\* counters, lcounters, fcounters, scounters; entries beyond the labels are
\* not in the group.
C1_GroupsPositional ==
    Constructed =>
        /\ Len(OperationLabels) = 15 /\ Len(LimitLabels) = 7 /\ Len(TableLabels) = 3
        /\ GroupMatches(self.cnt, OperationLabels, raw.counters)
        /\ GroupMatches(self.lcnt, LimitLabels, raw.lcounters)
        /\ GroupMatches(self.fcnt, TableLabels, raw.fcounters)
        /\ GroupMatches(self.scnt, TableLabels, raw.scounters)

C1_Witness ==
    /\ pc = "constructed"
    /\ Len(raw.counters) > 15 /\ Len(raw.lcounters) > 7
    /\ self.cnt.map["synproxy"] = raw.counters[15]
    /\ raw.counters[3] # raw.counters[4]

\* C2: a record whose debug level is outside {0,1,2,3} is never constructed
\* into a snapshot: construction fails.
C2_DebugRejected ==
    (pc # "start" /\ raw.debug \notin 0..3) => pc = "construct_failed"

\* C3: a record with any of the four counter arrays shorter than its label
\* list fails during construction with the exception raised there; no snapshot
\* exists and nothing is rendered or fails in render.
C3_ShortFailsAtConstruction ==
    (pc # "start" /\ (\/ Len(raw.counters) < 15 \/ Len(raw.lcounters) < 7
                      \/ Len(raw.fcounters) < 3 \/ Len(raw.scounters) < 3))
        => (pc = "construct_failed" /\ exc = "IndexError" /\ self = <<>> /\ out = <<>>)

C3_Witness ==
    /\ pc = "construct_failed"
    /\ Len(raw.counters) >= 15 /\ Len(raw.lcounters) < 7
    /\ raw.debug \in 0..3

\* C4: render of a constructed snapshot never raises, whatever the time.
C4_RenderNeverRaises == pc # "render_failed"

\* C5: in the rendered report the rows of each counter section come in the
\* order of the section's label table.
C5_RowsInLabelOrder ==
    pc = "rendered" =>
        /\ LabelsOf(RowsOf(out, {"fcnt"})) = TableLabels
        /\ LabelsOf(RowsOf(out, {"scnt"})) = TableLabels
        /\ LabelsOf(RowsOf(out, {"cnt"})) = OperationLabels
        /\ LabelsOf(RowsOf(out, {"lcnt"})) = LimitLabels

CounterKinds == {"fcnt", "scnt", "cnt", "lcnt"}

\* the number of "/s" suffixes a row carries
RateFields(row) == Cardinality({i \in 1..Len(row.text) : row.text[i] = "/s"})

\* C6: when the record's since is zero, no row of the report carries a rate
\* field or a "/s" suffix and the header has no elapsed time; when it is set,
\* every row of the four counter groups carries exactly one rate field.
C6_RatesOnlyWithSince ==
    pc = "rendered" =>
        /\ raw.since = 0 =>
            /\ \A i \in 1..Len(out) : out[i].rate = <<>> /\ RateFields(out[i]) = 0
            /\ out[1].kind = "status" /\ out[1].vals = <<>>
        /\ raw.since # 0 =>
            /\ \A i \in 1..Len(out) :
                out[i].kind \in CounterKinds =>
                    Len(out[i].rate) = 1 /\ RateFields(out[i]) = 1
            /\ Len(RowsOf(out, CounterKinds)) = 15 + 7 + 3 + 3

C6_Witness ==
    /\ pc = "rendered"
    /\ raw.since = 0
    /\ Len(RowsOf(out, CounterKinds)) = 28

SectionKinds == {"status", "hostid", "checksum", "ifhdr", "hdr"}

InterfaceKinds == {"ifhdr", "ifrow", "ifsub"}

\* C7: with an empty interface name the report has no interface row and its
\* sections are, in order, status header, Hostid, Checksum, State Table,
\* Source Tracking Table, Counters, Limit Counters; with a non-empty name the
\* interface rows (header, Bytes In/Out, Packets In/Out Passed/Blocked) stand
\* between Checksum and State Table.
C7_InterfaceSection ==
    pc = "rendered" =>
        /\ raw.ifname = "" =>
            /\ RowsOf(out, InterfaceKinds) = <<>>
            /\ LabelsOf(RowsOf(out, SectionKinds \ {"status"})) =
                 <<"Hostid:", "Checksum:", "State Table", "Source Tracking Table",
                   "Counters", "Limit Counters">>
            /\ out[1].kind = "status"
            /\ Len(RowsOf(out, CounterKinds)) = 28
        /\ raw.ifname # "" =>
            /\ LabelsOf(RowsOf(out, SectionKinds \ {"status"})) =
                 <<"Hostid:", "Checksum:", "Interface Stats for", "State Table",
                   "Source Tracking Table", "Counters", "Limit Counters">>
            /\ out[1].kind = "status"
            /\ out[3].kind = "checksum"
            /\ LabelsOf(SubSeq(out, 4, 12)) =
                 <<"Interface Stats for", "Bytes In", "Bytes Out", "  Packets In",
                   "  Passed", "  Blocked", "  Packets Out", "  Passed", "  Blocked">>
            /\ out[13].label = "State Table"
            /\ Len(RowsOf(out, InterfaceKinds)) = 9

C7_Witness ==
    /\ pc = "rendered"
    /\ raw.ifname = ""
    /\ Len(out) = 3 + 2 + 3 + 2 + 3 + 1 + 15 + 1 + 7

\* C8: the decoded host id is the 32-bit value whose network-order
\* (big-endian) bytes the record carries, and lies in 0 .. 2^32-1.
C8_HostidRoundTrip ==
    Constructed =>
        /\ self.hostid.hi = raw.hostid[1] * 256 + raw.hostid[2]
        /\ self.hostid.lo = raw.hostid[3] * 256 + raw.hostid[4]
        /\ self.hostid.hi \in 0..65535
        /\ self.hostid.lo \in 0..65535

C8_Witness ==
    /\ pc = "constructed"
    /\ platform.byteorder = "little"
    /\ platform.ntohl_signed
    /\ raw.hostid = <<255, 0, 1, 128>>
    /\ self.hostid = [hi |-> 65280, lo |-> 384]

LowerHex == <<"0","1","2","3","4","5","6","7","8","9","a","b","c","d","e","f">>

\* C9: for a checksum of n bytes the decoded string is "0x" followed by two
\* lowercase hex digits per byte in array order: its length is 2n+2 and the
\* i-th pair is the high and low nibble of the i-th byte.
C9_ChecksumHex ==
    Constructed =>
        LET n == Len(raw.pf_chksum)
            h == self.pf_chksum
        IN  /\ Len(h) = 2 * n + 2
            /\ h[1] = "0" /\ h[2] = "x"
            /\ \A i \in 1..n :
                /\ h[2 * i + 1] = LowerHex[(raw.pf_chksum[i] \div 16) + 1]
                /\ h[2 * i + 2] = LowerHex[(raw.pf_chksum[i] % 16) + 1]

C9_Witness ==
    /\ pc = "constructed"
    /\ raw.pf_chksum = <<10, 255>>
    /\ self.pf_chksum = <<"0", "x", "0", "a", "f", "f">>

\* C10: when since is set and the current time is not before it, the elapsed
\* time (days, hours, minutes, seconds) of the header has hours below 24,
\* minutes and seconds below 60, none negative, and adds up to the whole
\* seconds of current time - since.
C10_ElapsedDecomposition ==
    (pc = "rendered" /\ raw.since # 0 /\ now >= raw.since * Res) =>
        LET e == out[1].vals
        IN  /\ Len(e) = 4
            /\ e[1] >= 0
            /\ e[2] \in 0..23
            /\ e[3] \in 0..59
            /\ e[4] \in 0..59
            /\ e[1] * 86400 + e[2] * 3600 + e[3] * 60 + e[4]
                 = (now - raw.since * Res) \div Res

C10_Witness ==
    /\ pc = "rendered"
    /\ raw.since # 0
    /\ now > (raw.since + 86400) * Res
    /\ out[1].vals = <<1, 1, 1, 1>>

====
